---- MODULE Spec2Model ----
(***************************************************************************)
(* A model of tts-tester: the engine layer (tts_tester/engines.py), the    *)
(* settings store (tts_tester/settings.py) and the main window's engine    *)
(* and favorites handling (tts_tester/main.py).                            *)
(*                                                                         *)
(* Numbers.  speed, pitch and volume are Python floats.  The model holds   *)
(* them in thousandths (1.0 is 1000).  Every value of the grids below was  *)
(* chosen so that the binary64 products 175*speed, 50*pitch, 100*volume    *)
(* and the quotients 1.0/speed truncate, resp. print, exactly as the       *)
(* rational value does (0.29, for which int(100*0.29) is 28, is not on     *)
(* the grid).                                                              *)
(*                                                                         *)
(* Strings.  Python's None is the string NoneVal; a str(int) or a          *)
(* str(float) is rendered digit by digit.                                  *)
(***************************************************************************)
EXTENDS Integers, Sequences, FiniteSets, TLC

VARIABLES
    installed,      \* the programs shutil.which finds on the search path
    inst,           \* the engine instance under test (engine-layer specifications)
    last,           \* the last call or handler run: arguments and outcome
    settingsFile,   \* content of ~/.config/tts-tester/settings.json
    favoritesFile,  \* content of ~/.config/tts-tester/favorites.json
    win             \* the fields of MainWindow and of its VoiceSettingsPanel

vars == <<installed, inst, last, settingsFile, favoritesFile, win>>

-----------------------------------------------------------------------------
(* Python values *)

NoneVal == "<None>"

\* bool(v) of a str-or-None value: None and "" are falsy
Truthy(v) == v # NoneVal /\ v # ""

Max2(a, b) == IF a >= b THEN a ELSE b
Min2(a, b) == IF a <= b THEN a ELSE b

\* int(x) of the float a/b (b > 0): truncation toward zero
TruncDiv(a, b) == IF a >= 0 THEN a \div b ELSE -((-a) \div b)

Digit(d) ==
    CASE d = 0 -> "0" [] d = 1 -> "1" [] d = 2 -> "2" [] d = 3 -> "3"
      [] d = 4 -> "4" [] d = 5 -> "5" [] d = 6 -> "6" [] d = 7 -> "7"
      [] d = 8 -> "8" [] d = 9 -> "9"

RECURSIVE NatToStr(_)
NatToStr(n) == IF n < 10 THEN Digit(n) ELSE NatToStr(n \div 10) \o Digit(n % 10)

\* str(n) of an int
IntToStr(n) == IF n < 0 THEN "-" \o NatToStr(-n) ELSE NatToStr(n)

\* the longest fraction str(float) prints
MaxFracDigits == 17

RECURSIVE FracDigits(_, _, _)
FracDigits(r, d, k) ==
    IF r = 0 \/ k = 0 THEN ""
    ELSE Digit((r * 10) \div d) \o FracDigits((r * 10) % d, d, k - 1)

\* str(x) of the float n/d (d # 0), for quotients with a finite decimal expansion
FloatToStr(n, d) ==
    LET neg == (n < 0) # (d < 0)
        an  == IF n < 0 THEN -n ELSE n
        ad  == IF d < 0 THEN -d ELSE d
        fr  == FracDigits(an % ad, ad, MaxFracDigits)
    IN  (IF neg /\ an # 0 THEN "-" ELSE "") \o NatToStr(an \div ad) \o "."
            \o (IF fr = "" THEN "0" ELSE fr)

-----------------------------------------------------------------------------
(* tts_tester/engines.py *)

\* 1.0, the default of speed, pitch and volume, in thousandths
One == 1000

ENGINE_CLASSES == <<"espeak-ng", "piper", "festival">>

EngineNames == {ENGINE_CLASSES[i] : i \in 1..Len(ENGINE_CLASSES)}

\* the program each class looks up with shutil.which
Program(name) == name

Programs == {Program(n) : n \in EngineNames}

is_available(name) == Program(name) \in installed

\* TTSEngine.__init__ and the subclasses' __init__
NewEngine(name) ==
    [name |-> name, speed |-> One, pitch |-> One, volume |-> One,
     voice |-> NoneVal, process |-> NoneVal]

NoInstance == [name |-> NoneVal]

SettingKeys == {"speed", "pitch", "volume", "voice"}

\* settings.get(k, default)
DictGet(settings, k, default) == IF k \in DOMAIN settings THEN settings[k] ELSE default

get_settings(e) ==
    [speed |-> e.speed, pitch |-> e.pitch, volume |-> e.volume, voice |-> e.voice]

apply_settings_keep(e, settings) ==
    [e EXCEPT !.speed  = DictGet(settings, "speed", e.speed),
              !.pitch  = DictGet(settings, "pitch", e.pitch),
              !.volume = DictGet(settings, "volume", e.volume),
              !.voice  = DictGet(settings, "voice", e.voice)]

apply_settings(e, settings) ==
    [e EXCEPT !.speed  = DictGet(settings, "speed", One),
              !.pitch  = DictGet(settings, "pitch", One),
              !.volume = DictGet(settings, "volume", One),
              !.voice  = DictGet(settings, "voice", NoneVal)]

BaseWpm == 175
BasePitch == 50
MaxPitch == 99
BaseVolume == 100
MaxVolume == 200

\* a rounding to the nearest integer, ties away from zero
RoundDiv(a, b) == IF a >= 0 THEN (2 * a + b) \div (2 * b) ELSE -((2 * (-a) + b) \div (2 * b))

EspeakWpmRounded(speed) == RoundDiv(BaseWpm * speed, One)

\* wpm = int(175 * self.speed)
EspeakWpm(speed) == TruncDiv(BaseWpm * speed, One)

EspeakPitchUnclamped(pitch) == TruncDiv(BasePitch * pitch, One)

\* pitch_val = max(0, min(99, int(50 * self.pitch)))
EspeakPitch(pitch) == Max2(0, Min2(MaxPitch, TruncDiv(BasePitch * pitch, One)))

\* vol = max(0, min(200, int(100 * self.volume)))
EspeakVolume(volume) == Max2(0, Min2(MaxVolume, TruncDiv(BaseVolume * volume, One)))

EspeakArgsNoWav(e, text, output_file, ssml) ==
    <<"espeak-ng">>
        \o (IF Truthy(e.voice) THEN <<"-v", e.voice>> ELSE <<>>)
        \o <<"-s", IntToStr(EspeakWpm(e.speed))>>
        \o <<"-p", IntToStr(EspeakPitch(e.pitch))>>
        \o <<"-a", IntToStr(EspeakVolume(e.volume))>>
        \o (IF ssml THEN <<"-m">> ELSE <<>>)
        \o <<text>>

\* the cmd list EspeakEngine.speak hands to subprocess.Popen
EspeakArgs(e, text, output_file, ssml) ==
    <<"espeak-ng">>
        \o (IF Truthy(e.voice) THEN <<"-v", e.voice>> ELSE <<>>)
        \o <<"-s", IntToStr(EspeakWpm(e.speed))>>
        \o <<"-p", IntToStr(EspeakPitch(e.pitch))>>
        \o <<"-a", IntToStr(EspeakVolume(e.volume))>>
        \o (IF ssml THEN <<"-m">> ELSE <<>>)
        \o (IF Truthy(output_file) THEN <<"-w", output_file>> ELSE <<>>)
        \o <<text>>

\* the tenth of 1.0 below which Piper does not let the speed fall
MinPiperSpeed == 100

\* str(1.0 / max(0.1, self.speed))
PiperLengthScale(speed) == FloatToStr(One, Max2(MinPiperSpeed, speed))

PiperArgsAlwaysScale(e, output_file) ==
    <<"piper", "--output_file", output_file>>
        \o (IF e.voice # NoneVal /\ e.voice # "" THEN <<"--model", e.voice>> ELSE <<>>)
        \o <<"--length_scale", PiperLengthScale(e.speed)>>

\* the cmd list PiperEngine.speak hands to subprocess.Popen; output_file is
\* the given path or the tempfile.mktemp one
PiperArgs(e, output_file) ==
    <<"piper", "--output_file", output_file>>
        \o (IF Truthy(e.voice) /\ e.voice # "" THEN <<"--model", e.voice>> ELSE <<>>)
        \o (IF e.speed # One THEN <<"--length_scale", PiperLengthScale(e.speed)>> ELSE <<>>)

\* a program that stretches by the speed, not by its inverse
FestivalSchemeStretchBySpeed(e, text, output_file) ==
    (IF Truthy(e.voice) THEN <<"(" \o e.voice \o ")">> ELSE <<>>)
        \o (IF e.speed # One
            THEN <<"(Parameter.set 'Duration_Stretch " \o FloatToStr(e.speed, One) \o ")">>
            ELSE <<>>)
        \o (IF Truthy(output_file)
            THEN <<"(set! utt1 (SynthText \"" \o text \o "\"))",
                   "(utt.save.wave utt1 \"" \o output_file \o "\")">>
            ELSE <<"(SayText \"" \o text \o "\")">>)

\* a program that synthesises to a file whatever was asked
FestivalSchemeSaveOnly(e, text, output_file) ==
    (IF Truthy(e.voice) THEN <<"(" \o e.voice \o ")">> ELSE <<>>)
        \o (IF e.speed # One
            THEN <<"(Parameter.set 'Duration_Stretch " \o FloatToStr(One, e.speed) \o ")">>
            ELSE <<>>)
        \o <<"(set! utt1 (SynthText \"" \o text \o "\"))",
             "(utt.save.wave utt1 \"" \o output_file \o "\")">>

\* the Scheme program FestivalEngine.speak writes to festival's standard
\* input, one element per line; defined for speed # 0 or speed = 1.0
FestivalScheme(e, text, output_file) ==
    (IF Truthy(e.voice) THEN <<"(" \o e.voice \o ")">> ELSE <<>>)
        \o (IF e.speed # One
            THEN <<"(Parameter.set 'Duration_Stretch " \o FloatToStr(One, e.speed) \o ")">>
            ELSE <<>>)
        \o (IF Truthy(output_file)
            THEN <<"(set! utt1 (SynthText \"" \o text \o "\"))",
                   "(utt.save.wave utt1 \"" \o output_file \o "\")">>
            ELSE <<"(SayText \"" \o text \o "\")">>)

\* a stop() that asks only whether there is a handle
stop_terminates_any_handle(e) == e.process # NoneVal

\* stop(): self._process and self._process.poll() is None, the condition
\* under which terminate() is called.  process is NoneVal with no handle,
\* else the state of the process the handle is of.
stop_terminates(e) == e.process = "running"

\* stop(): the instance after the call; the handle is forgotten only in the
\* branch that terminates
stop(e) == IF stop_terminates(e) THEN [e EXCEPT !.process = NoneVal] ELSE e

detect_engines_all == ENGINE_CLASSES

\* [cls for cls in ENGINE_CLASSES if cls.is_available()]
detect_engines == SelectSeq(ENGINE_CLASSES, is_available)

get_engine_if_available(name) ==
    IF name \in EngineNames /\ is_available(name) THEN NewEngine(name) ELSE NoInstance

\* the first class of the registry with that name, instantiated; else None
get_engine(name) ==
    IF \E i \in 1..Len(ENGINE_CLASSES) : ENGINE_CLASSES[i] = name
    THEN NewEngine(ENGINE_CLASSES[CHOOSE i \in 1..Len(ENGINE_CLASSES) :
                        /\ ENGINE_CLASSES[i] = name
                        /\ \A j \in 1..(i - 1) : ENGINE_CLASSES[j] # name])
    ELSE NoInstance

-----------------------------------------------------------------------------
(* Inputs of the engine-layer specifications *)

\* speeds, in thousandths: -1.0, 0.0, 0.05, 0.1, 0.25, 1.0, 2.0, 4.0
SpeedVals == {-1000, 0, 50, 100, 250, 1000, 2000, 4000}

\* pitches: -5.0, 0.875, 1.0, 10.0
PitchVals == {-5000, 875, 1000, 10000}

\* volumes: 0.128, 1.0, 5.0
VolumeVals == {128, 1000, 5000}

VoiceVals == {NoneVal, "en"}

Texts == {"Hello world", "Hi"}

OutputPaths == {NoneVal, "/tmp/out.wav"}

\* the names tempfile.mktemp(suffix=".wav") may return
TmpPaths == {"/tmp/tmpa.wav", "/tmp/tmpb.wav"}

\* identifiers asked of get_engine
Identifiers == EngineNames \cup {"nonexistent", "base", "Piper"}

Instances ==
    {[name |-> n, speed |-> s, pitch |-> p, volume |-> v, voice |-> vc, process |-> NoneVal] :
        n \in EngineNames, s \in SpeedVals, p \in PitchVals, v \in VolumeVals, vc \in VoiceVals}

NoCall == [op |-> "none"]

\* the outcome of one speak call
SpeakCall(e, text, output_file, ssml, cmd, stdin, path, spawned, produced, ret, raised) ==
    [op |-> "speak", engine |-> e.name, settings |-> get_settings(e), text |-> text,
     output_file |-> output_file, ssml |-> ssml, cmd |-> cmd, stdin |-> stdin,
     path |-> path, spawned |-> spawned, produced |-> produced, ret |-> ret,
     raised |-> raised]

-----------------------------------------------------------------------------
(* Engine-layer operations *)

\* the search path changes under the program's feet
Install(p) ==
    /\ p \notin installed
    /\ installed' = installed \cup {p}
    /\ UNCHANGED <<inst, last, settingsFile, favoritesFile, win>>

Uninstall(p) ==
    /\ p \in installed
    /\ installed' = installed \ {p}
    /\ UNCHANGED <<inst, last, settingsFile, favoritesFile, win>>

DetectEngines ==
    /\ last' = [op |-> "detect_engines", path |-> installed, ret |-> detect_engines]
    /\ UNCHANGED <<installed, inst, settingsFile, favoritesFile, win>>

GetEngine(name) ==
    /\ inst' = get_engine(name)
    /\ last' = [op |-> "get_engine", name |-> name, installed |-> installed, ret |-> inst']
    /\ UNCHANGED <<installed, settingsFile, favoritesFile, win>>

\* EspeakEngine.speak: Popen raises FileNotFoundError when the program is not
\* found; with an output file the call waits for the exit, else it returns
\* with the process running
EspeakSpeak(text, output_file, ssml) ==
    /\ inst.name = "espeak-ng"
    /\ LET cmd == EspeakArgs(inst, text, output_file, ssml) IN
       IF ~is_available("espeak-ng")
       THEN /\ inst' = inst
            /\ last' = SpeakCall(inst, text, output_file, ssml, cmd, <<>>, output_file,
                                 FALSE, FALSE, NoneVal, "FileNotFoundError")
       ELSE IF Truthy(output_file)
       THEN /\ inst' = [inst EXCEPT !.process = "exited"]
            /\ \E produced \in BOOLEAN :
                 last' = SpeakCall(inst, text, output_file, ssml, cmd, <<>>, output_file,
                                   TRUE, produced, output_file, "")
       ELSE /\ inst' = [inst EXCEPT !.process = "running"]
            /\ last' = SpeakCall(inst, text, output_file, ssml, cmd, <<>>, output_file,
                                 TRUE, FALSE, NoneVal, "")
    /\ UNCHANGED <<installed, settingsFile, favoritesFile, win>>

\* PiperEngine.speak: the text goes to standard input, communicate() waits for
\* the exit, and the path is returned only if a file is there
PiperSpeak(text, output_file, ssml) ==
    /\ inst.name = "piper"
    /\ \E tmp \in TmpPaths :
       LET path == IF Truthy(output_file) THEN output_file ELSE tmp
           cmd  == PiperArgs(inst, path)
       IN  IF ~is_available("piper")
           THEN /\ inst' = inst
                /\ last' = SpeakCall(inst, text, output_file, ssml, cmd, <<>>, path,
                                     FALSE, FALSE, NoneVal, "FileNotFoundError")
           ELSE /\ inst' = [inst EXCEPT !.process = "exited"]
                /\ \E produced \in BOOLEAN :
                     last' = SpeakCall(inst, text, output_file, ssml, cmd, <<text>>, path,
                                       TRUE, produced,
                                       IF produced THEN path ELSE NoneVal, "")
    /\ UNCHANGED <<installed, settingsFile, favoritesFile, win>>

\* FestivalEngine.speak: 1.0/rate raises ZeroDivisionError for a speed of 0
\* before anything is spawned; communicate() waits for the exit
FestivalSpeak(text, output_file, ssml) ==
    /\ inst.name = "festival"
    /\ IF inst.speed = 0
       THEN /\ inst' = inst
            /\ last' = SpeakCall(inst, text, output_file, ssml, <<>>, <<>>, output_file,
                                 FALSE, FALSE, NoneVal, "ZeroDivisionError")
       ELSE LET scheme == FestivalScheme(inst, text, output_file) IN
            IF ~is_available("festival")
            THEN /\ inst' = inst
                 /\ last' = SpeakCall(inst, text, output_file, ssml, <<"festival">>, <<>>,
                                      output_file, FALSE, FALSE, NoneVal, "FileNotFoundError")
            ELSE /\ inst' = [inst EXCEPT !.process = "exited"]
                 /\ \E produced \in BOOLEAN :
                      last' = SpeakCall(inst, text, output_file, ssml, <<"festival">>, scheme,
                                        output_file, TRUE, produced /\ Truthy(output_file),
                                        IF Truthy(output_file) THEN output_file ELSE NoneVal, "")
    /\ UNCHANGED <<installed, settingsFile, favoritesFile, win>>

Speak(text, output_file, ssml) ==
    \/ EspeakSpeak(text, output_file, ssml)
    \/ PiperSpeak(text, output_file, ssml)
    \/ FestivalSpeak(text, output_file, ssml)

\* the subprocess of a direct playback ends on its own
ProcessExits ==
    /\ inst # NoInstance
    /\ inst.process = "running"
    /\ inst' = [inst EXCEPT !.process = "exited"]
    /\ UNCHANGED <<installed, last, settingsFile, favoritesFile, win>>

\* stop() on the instance; again says that the call before it was a stop() too
Stop ==
    /\ inst # NoInstance
    /\ inst' = stop(inst)
    /\ last' = [op |-> "stop", before |-> inst, terminated |-> stop_terminates(inst),
                again |-> (last.op = "stop"), raised |-> ""]
    /\ UNCHANGED <<installed, settingsFile, favoritesFile, win>>

\* apply_settings(settings) on the instance
ApplySettings(settings) ==
    /\ inst # NoInstance
    /\ inst' = apply_settings(inst, settings)
    /\ last' = [op |-> "apply_settings", before |-> get_settings(inst), settings |-> settings]
    /\ UNCHANGED <<installed, settingsFile, favoritesFile, win>>

\* get_settings() on the instance; previous is the apply_settings call that
\* came right before it, if one did
GetSettings ==
    /\ inst # NoInstance
    /\ last' = [op |-> "get_settings",
                previous |-> IF last.op = "apply_settings" THEN last ELSE NoCall,
                ret |-> get_settings(inst)]
    /\ UNCHANGED <<installed, inst, settingsFile, favoritesFile, win>>

NoWindow == [open |-> FALSE]

NoFile == [kind |-> "missing"]

-----------------------------------------------------------------------------
(* SpecRegistry: the registry, and engines as get_engine makes them *)

InitRegistry ==
    /\ installed \in SUBSET Programs
    /\ inst = NoInstance
    /\ last = NoCall
    /\ settingsFile = NoFile
    /\ favoritesFile = NoFile
    /\ win = NoWindow

NextRegistry ==
    \/ \E p \in Programs : Install(p)
    \/ \E p \in Programs : Uninstall(p)
    \/ DetectEngines
    \/ \E name \in Identifiers : GetEngine(name)
    \/ \E text \in Texts, output_file \in OutputPaths, ssml \in BOOLEAN :
         Speak(text, output_file, ssml)
    \/ ProcessExits
    \/ Stop

SpecRegistry == InitRegistry /\ [][NextRegistry]_vars

-----------------------------------------------------------------------------
(* SpecEngine: speak on an instance holding any settings of the grids *)

InitEngine ==
    /\ installed \in {{}, Programs}
    /\ inst \in Instances
    /\ last = NoCall
    /\ settingsFile = NoFile
    /\ favoritesFile = NoFile
    /\ win = NoWindow

NextEngine ==
    \/ \E text \in Texts, output_file \in OutputPaths, ssml \in BOOLEAN :
         Speak(text, output_file, ssml)
    \/ ProcessExits
    \/ Stop

SpecEngine == InitEngine /\ [][NextEngine]_vars

-----------------------------------------------------------------------------
(* SpecVoices: get_voices against every outcome of the voice query *)

\* one entry of the list get_voices returns: (identifier, label)
Voice(id, label) == [id |-> id, label |-> label]

\* stdout.strip().split("\n"), each line as the tokens line.split() gives:
\* an empty output is one line with no token
SplitLines(stdout) == IF stdout = <<>> THEN << <<>> >> ELSE stdout

RECURSIVE EspeakRows(_)
\* EspeakEngine.get_voices, the loop over the lines after the header
EspeakRows(lines) ==
    IF lines = <<>> THEN <<>>
    ELSE (IF Len(Head(lines)) >= 4
          THEN <<Voice(Head(lines)[4], Head(lines)[4] \o " (" \o Head(lines)[2] \o ")")>>
          ELSE <<>>)
         \o EspeakRows(Tail(lines))

\* the exceptions get_voices catches: subprocess.SubprocessError and OSError
Caught(exc) == exc \in {"FileNotFoundError", "TimeoutExpired"}

\* EspeakEngine.get_voices; q is what subprocess.run did
EspeakGetVoices(q) ==
    IF q.raised = ""
    THEN [ret |-> EspeakRows(Tail(SplitLines(q.stdout))), raised |-> ""]
    ELSE IF Caught(q.raised) THEN [ret |-> <<>>, raised |-> ""]
    ELSE [ret |-> NoneVal, raised |-> q.raised]

\* FestivalEngine.get_voices; the output is its tokens, a parenthesis being
\* a token of its own
FestivalGetVoices(q) ==
    IF q.raised = ""
    THEN [ret |-> IF /\ q.stdout # <<>>
                     /\ Head(q.stdout) = "("
                     /\ q.stdout[Len(q.stdout)] = ")"
                  THEN [i \in 1..(Len(q.stdout) - 2) |->
                           Voice(q.stdout[i + 1], q.stdout[i + 1])]
                  ELSE <<>>,
          raised |-> ""]
    ELSE IF Caught(q.raised) THEN [ret |-> <<>>, raised |-> ""]
    ELSE [ret |-> NoneVal, raised |-> q.raised]

\* PiperEngine.get_voices, model_dirs
PiperModelDirs ==
    <<"/home/user/.local/share/piper-voices", "/usr/share/piper-voices",
      "/home/user/.local/share/piper/voices">>

RECURSIVE PiperModels(_, _)
\* the .onnx files of one directory listing (sorted), as voices
PiperModels(dir, files) ==
    IF files = <<>> THEN <<>>
    ELSE (IF Head(files).suffix = ".onnx"
          THEN <<Voice(dir \o "/" \o Head(files).stem \o ".onnx", Head(files).stem)>>
          ELSE <<>>)
         \o PiperModels(dir, Tail(files))

RECURSIVE PiperScan(_, _, _)
\* the loop over model_dirs from directory i on, voices being those found so
\* far; os.listdir raises on a directory that cannot be read
PiperScan(dirs, i, voices) ==
    IF i > Len(PiperModelDirs) THEN [ret |-> voices, raised |-> ""]
    ELSE IF dirs[i].kind = "absent" THEN PiperScan(dirs, i + 1, voices)
    ELSE IF dirs[i].kind = "denied" THEN [ret |-> NoneVal, raised |-> "PermissionError"]
    ELSE PiperScan(dirs, i + 1, voices \o PiperModels(PiperModelDirs[i], dirs[i].files))

\* if not voices: voices.append(("", _("(default)")))
PiperDefault(found) ==
    IF found.raised = "" /\ found.ret = <<>>
    THEN [ret |-> <<Voice("", "(default)")>>, raised |-> ""]
    ELSE found

\* PiperEngine.get_voices
PiperGetVoices(dirs) == PiperDefault(PiperScan(dirs, 1, <<>>))

\* what espeak-ng --voices may print
EspeakOutputs ==
    { <<>>,
      << <<"Pty", "Language", "Age/Gender", "VoiceName", "File", "Other", "Languages">>,
         <<"5", "af", "--/M", "Afrikaans", "gmw/af">>,
         <<"2", "en-gb", "--/M", "English_(Great_Britain)", "gmw/en", "(en", "2)">> >>,
      << <<"Pty", "Language", "Age/Gender", "VoiceName", "File", "Other", "Languages">> >>,
      << <<"Error:">>, <<"no", "voices">> >>,
      << <<"Error:">>, <<"cannot", "read", "the", "voices", "directory">> >> }

\* the outputs of espeak-ng --voices that are a voice table
EspeakTables == {o \in EspeakOutputs : o # <<>> /\ Head(o)[1] = "Pty"}

\* what festival -b "(voice.list)" may print
FestivalOutputs ==
    { <<>>,
      <<"(", "kal_diphone", "cmu_us_slt_arctic_hts", ")">>,
      <<"(", ")">>,
      <<"(", "kal_diphone">>,
      <<"SIOD", "ERROR:", "unbound", "variable">> }

\* the outputs of festival that are a Scheme list
FestivalLists == {o \in FestivalOutputs : o # <<>> /\ Head(o) = "(" /\ o[Len(o)] = ")"}

\* what subprocess.run(..., text=True, timeout=10) does with a program that is
\* on the PATH: it returns the decoded output and the exit status, or raises
\* TimeoutExpired, or UnicodeDecodeError for bytes that do not decode
Queries(outputs) ==
    [raised : {""}, returncode : {0, 1}, stdout : outputs]
        \cup [raised : {"TimeoutExpired", "UnicodeDecodeError"},
              returncode : {NoneVal}, stdout : {<<>>}]

\* ... and with a program that is not: FileNotFoundError
NotFound == [raised |-> "FileNotFoundError", returncode |-> NoneVal, stdout |-> <<>>]

\* the states of one model directory
DirStates ==
    { [kind |-> "absent"], [kind |-> "denied"],
      [kind |-> "dir", files |-> <<>>],
      [kind |-> "dir",
       files |-> << [stem |-> "README", suffix |-> ".md"],
                    [stem |-> "en_US-amy-medium", suffix |-> ".onnx"],
                    [stem |-> "en_US-amy-medium", suffix |-> ".onnx.json"] >>] }

VoicesCall(q, out) ==
    [op |-> "get_voices", engine |-> inst.name, query |-> q,
     ret |-> out.ret, raised |-> out.raised]

\* engine.get_voices() on an espeak-ng or festival instance
GetVoicesOfProgram ==
    /\ inst # NoInstance
    /\ inst.name \in {"espeak-ng", "festival"}
    /\ \E q \in IF ~is_available(inst.name) THEN {NotFound}
                ELSE IF inst.name = "espeak-ng" THEN Queries(EspeakOutputs)
                ELSE Queries(FestivalOutputs) :
          last' = VoicesCall(q, IF inst.name = "espeak-ng" THEN EspeakGetVoices(q)
                                ELSE FestivalGetVoices(q))
    /\ UNCHANGED <<installed, inst, settingsFile, favoritesFile, win>>

\* engine.get_voices() on a piper instance
GetVoicesOfPiper ==
    /\ inst # NoInstance
    /\ inst.name = "piper"
    /\ \E dirs \in [1..Len(PiperModelDirs) -> DirStates] :
          last' = VoicesCall(dirs, PiperGetVoices(dirs))
    /\ UNCHANGED <<installed, inst, settingsFile, favoritesFile, win>>

InitVoices ==
    /\ installed \in {{}, Programs}
    /\ inst \in {NewEngine(n) : n \in EngineNames}
    /\ last = NoCall
    /\ settingsFile = NoFile
    /\ favoritesFile = NoFile
    /\ win = NoWindow

NextVoices ==
    \/ GetVoicesOfProgram
    \/ GetVoicesOfPiper

SpecVoices == InitVoices /\ [][NextVoices]_vars

-----------------------------------------------------------------------------
(* SpecSettings: apply_settings and get_settings *)

Restrict(f, D) == [k \in D |-> f[k]]

\* the records handed to apply_settings: any subset of the four fields
SettingsRecords ==
    {Restrict(full, D) :
        full \in [speed : {250, 1000}, pitch : {875}, volume : {128}, voice : {NoneVal, "en"}],
        D \in SUBSET SettingKeys}

InitSettings ==
    /\ installed = {}
    /\ inst \in Instances
    /\ last = NoCall
    /\ settingsFile = NoFile
    /\ favoritesFile = NoFile
    /\ win = NoWindow

NextSettings ==
    \/ \E settings \in SettingsRecords : ApplySettings(settings)
    \/ GetSettings

SpecSettings == InitSettings /\ [][NextSettings]_vars

-----------------------------------------------------------------------------
(* tts_tester/settings.py *)

(* A file is missing, or holds bytes the locale's codec cannot decode, or    *)
(* text that is not JSON (empty and cut-off files too), or a JSON text.  A   *)
(* JSON text is held as its value: member order and white space are not      *)
(* modelled.  A Python dict is a function from its keys, a list a sequence.  *)

UndecodableFile == [kind |-> "undecodable"]

MalformedFile == [kind |-> "malformed"]

JsonFile(doc) == [kind |-> "json", doc |-> doc]

JNull == [t |-> "null"]
JNumber(x) == [t |-> "number", v |-> x]
JString(x) == [t |-> "string", v |-> x]
JObject(members) == [t |-> "object", v |-> members]
JArray(items) == [t |-> "array", v |-> items]

\* json.dump of a str-or-None value
DumpStr(x) == IF x = NoneVal THEN JNull ELSE JString(x)

DumpRecordSkipNone(r) ==
    JObject([k \in {x \in DOMAIN r : x # "voice" \/ r[x] # NoneVal} |->
                IF k \in {"speed", "pitch", "volume"} THEN JNumber(r[k]) ELSE DumpStr(r[k])])

\* json.dump of a settings record: floats as numbers, the voice as string or null
DumpRecord(r) ==
    JObject([k \in DOMAIN r |->
                IF k \in {"speed", "pitch", "volume"} THEN JNumber(r[k]) ELSE DumpStr(r[k])])

\* json.dump of the settings document {engine name: settings record}
DumpSettings(settings) == JObject([n \in DOMAIN settings |-> DumpRecord(settings[n])])

\* json.dump of the favorites list [{name, engine, settings}]
DumpFavorites(favorites) ==
    JArray([i \in 1..Len(favorites) |->
              JObject([k \in DOMAIN favorites[i] |->
                         IF k = "settings" THEN DumpRecord(favorites[i][k])
                         ELSE DumpStr(favorites[i][k])])])

RECURSIVE JsonToPy(_)
\* the value json.load builds from a JSON text
JsonToPy(j) ==
    CASE j.t = "null"   -> NoneVal
      [] j.t = "number" -> j.v
      [] j.t = "string" -> j.v
      [] j.t = "object" -> [k \in DOMAIN j.v |-> JsonToPy(j.v[k])]
      [] j.t = "array"  -> [i \in 1..Len(j.v) |-> JsonToPy(j.v[i])]

\* open(path, "r") and json.load(f): what is raised, and what is returned
\* when FileNotFoundError and json.JSONDecodeError are caught and empty is
\* returned in their place
ReadRaises(file) == IF file.kind = "undecodable" THEN "UnicodeDecodeError" ELSE ""

ReadReturns(file, empty) ==
    CASE file.kind = "json"        -> JsonToPy(file.doc)
      [] file.kind = "missing"     -> empty
      [] file.kind = "malformed"   -> empty
      [] file.kind = "undecodable" -> NoneVal

EmptyDict == <<>>

EmptyList == <<>>

load_settings_raises(file) == ReadRaises(file)
load_settings(file) == ReadReturns(file, EmptyDict)

load_favorites_raises(file) == ReadRaises(file)
load_favorites(file) == ReadReturns(file, EmptyList)

(* _ensure_config_dir(), open(path, "w") and json.dump: the outcomes.        *)
(* "ok": the text is written.  "no-open": os.makedirs or open raises OSError *)
(* and the file is as it was.  "cut": open has emptied the file and a write  *)
(* raises OSError, which leaves a cut-off text.                              *)
WriteOutcomes == {"ok", "no-open", "cut"}

Written(file, doc, outcome) ==
    CASE outcome = "ok"      -> JsonFile(doc)
      [] outcome = "no-open" -> file
      [] outcome = "cut"     -> MalformedFile

WriteRaises(outcome) == IF outcome = "ok" THEN "" ELSE "OSError"

save_settings(file, settings, outcome) == Written(file, DumpSettings(settings), outcome)

\* a save that writes the newest entry alone
save_favorites_newest_only(file, favorites, outcome) ==
    Written(file, DumpFavorites(SubSeq(favorites, Len(favorites), Len(favorites))), outcome)

save_favorites(file, favorites, outcome) == Written(file, DumpFavorites(favorites), outcome)

-----------------------------------------------------------------------------
(* SpecStore: the two documents, loaded and saved *)

MaxFavorites == 2

StoreRecords ==
    {[speed |-> 1000, pitch |-> 1000, volume |-> 1000, voice |-> NoneVal],
     [speed |-> 2000, pitch |-> 875, volume |-> 128, voice |-> "en"]}

\* settings documents: any engines of the registry, each with a record
SettingsDocs == UNION {[D -> StoreRecords] : D \in SUBSET EngineNames}

FavoriteEntries ==
    [name : {"fav"}, engine : {"espeak-ng", "nonexistent"},
     settings : {[speed |-> 2000, pitch |-> 875, volume |-> 128, voice |-> "en"]}]

FavoritesLists == UNION {[1..n -> FavoriteEntries] : n \in 0..MaxFavorites}

SettingsFiles ==
    {NoFile, UndecodableFile, MalformedFile} \cup {JsonFile(DumpSettings(d)) : d \in SettingsDocs}

FavoritesFiles ==
    {NoFile, UndecodableFile, MalformedFile}
        \cup {JsonFile(DumpFavorites(l)) : l \in FavoritesLists}

\* the call before, when it was op and raised nothing
Before(op) == IF last.op = op /\ last.raised = "" THEN last.call ELSE NoCall

LoadSettings ==
    /\ last' = [op |-> "load_settings", raised |-> load_settings_raises(settingsFile),
                call |-> [op |-> "load_settings", file |-> settingsFile,
                          ret |-> load_settings(settingsFile)],
                previous |-> Before("save_settings")]
    /\ UNCHANGED <<installed, inst, settingsFile, favoritesFile, win>>

LoadFavorites ==
    /\ last' = [op |-> "load_favorites", raised |-> load_favorites_raises(favoritesFile),
                call |-> [op |-> "load_favorites", file |-> favoritesFile,
                          ret |-> load_favorites(favoritesFile)],
                previous |-> Before("save_favorites")]
    /\ UNCHANGED <<installed, inst, settingsFile, favoritesFile, win>>

\* previous is the load right before, when this call saves what it returned
SaveSettings(settings, outcome) ==
    /\ settingsFile' = save_settings(settingsFile, settings, outcome)
    /\ last' = [op |-> "save_settings", raised |-> WriteRaises(outcome),
                call |-> [op |-> "save_settings", doc |-> settings, stored |-> settingsFile'],
                previous |-> IF Before("load_settings") # NoCall
                                /\ Before("load_settings").ret = settings
                             THEN Before("load_settings") ELSE NoCall]
    /\ UNCHANGED <<installed, inst, favoritesFile, win>>

SaveFavorites(favorites, outcome) ==
    /\ favoritesFile' = save_favorites(favoritesFile, favorites, outcome)
    /\ last' = [op |-> "save_favorites", raised |-> WriteRaises(outcome),
                call |-> [op |-> "save_favorites", doc |-> favorites, stored |-> favoritesFile'],
                previous |-> IF Before("load_favorites") # NoCall
                                /\ Before("load_favorites").ret = favorites
                             THEN Before("load_favorites") ELSE NoCall]
    /\ UNCHANGED <<installed, inst, settingsFile, win>>

\* the files are the user's: removed, overwritten or damaged outside the program
DamageSettingsFile(file) ==
    /\ settingsFile # file
    /\ settingsFile' = file
    /\ last' = NoCall
    /\ UNCHANGED <<installed, inst, favoritesFile, win>>

DamageFavoritesFile(file) ==
    /\ favoritesFile # file
    /\ favoritesFile' = file
    /\ last' = NoCall
    /\ UNCHANGED <<installed, inst, settingsFile, win>>

InitStore ==
    /\ installed = {}
    /\ inst = NoInstance
    /\ last = NoCall
    /\ settingsFile = NoFile
    /\ favoritesFile = NoFile
    /\ win = NoWindow

NextStore ==
    \/ LoadSettings
    \/ LoadFavorites
    \/ \E d \in SettingsDocs, outcome \in WriteOutcomes : SaveSettings(d, outcome)
    \/ \E l \in FavoritesLists, outcome \in WriteOutcomes : SaveFavorites(l, outcome)
    \/ \E file \in {NoFile, UndecodableFile, MalformedFile} : DamageSettingsFile(file)
    \/ \E file \in {NoFile, UndecodableFile, MalformedFile} : DamageFavoritesFile(file)

SpecStore == InitStore /\ [][NextStore]_vars

-----------------------------------------------------------------------------
(* tts_tester/main.py: MainWindow and its VoiceSettingsPanel *)

(* The handlers are operators on x = [win, file]: the window's fields and    *)
(* the content of settings.json, which _on_voice_settings_changed rewrites   *)
(* from inside other handlers.  Gtk calls a signal handler synchronously     *)
(* from the call that changes the value: Gtk.Range.set_value emits           *)
(* value-changed, and Gtk.DropDown.set_selected notify::selected, when the   *)
(* value changes.  Whether Gtk.DropDown.set_model emits notify::selected     *)
(* when the position stays 0 is left open (win.set_model_notifies).  An      *)
(* exception raised in a signal handler is reported by PyGObject and does    *)
(* not reach the code that changed the value.                                *)

\* the value of a one-element set.  A handler's statements are nested as
\* Only({rest : x1 \in {first}}): x1 is what the first statement leaves, so
\* each handler below reads from its last line up.
Only(S) == CHOOSE e \in S : TRUE

\* what get_voices() returns, the identifiers only
get_voices(name) ==
    CASE name = "espeak-ng" -> IF is_available(name) THEN <<"en">> ELSE <<>>
      [] name = "piper"     -> <<"">>
      [] name = "festival"  -> IF is_available(name) THEN <<"kal_diphone">> ELSE <<>>

Clamp(v, lo, hi) == Max2(lo, Min2(hi, v))

\* Gtk.Scale.new_with_range(lower, upper): speed, pitch, volume
ScaleLower(key) == CASE key = "speed" -> 250 [] key = "pitch" -> 250 [] key = "volume" -> 0
ScaleUpper(key) == CASE key = "speed" -> 4000 [] key = "pitch" -> 2000 [] key = "volume" -> 2000

\* dict[key] = value
DictPut(d, key, value) == [k \in DOMAIN d \cup {key} |-> IF k = key THEN value ELSE d[k]]

\* list.index(value)
IndexOf(seq, value) ==
    CHOOSE i \in 1..Len(seq) : seq[i] = value /\ \A j \in 1..(i - 1) : seq[j] # value

\* VoiceSettingsPanel.get_selected_voice
get_selected_voice(panel) ==
    IF panel.selected >= 1 /\ panel.selected <= Len(panel.voice_ids)
    THEN panel.voice_ids[panel.selected] ELSE NoneVal

\* VoiceSettingsPanel.get_settings
panel_get_settings(panel) ==
    [voice |-> get_selected_voice(panel), speed |-> panel.speed,
     pitch |-> panel.pitch, volume |-> panel.volume]

\* MainWindow._on_voice_settings_changed, the panel's on_change
on_voice_settings_changed(x, outcome) ==
    IF x.win.current_engine # 0 /\ Truthy(x.win.current_engine_name)
    THEN Only({
         Only({ [win  |-> [x.win EXCEPT !.heap[x.win.current_engine] =
                                            apply_settings(@, settings),
                                        !.all_settings = all],
                 file |-> save_settings(x.file, all, outcome)]
              : all \in {DictPut(x.win.all_settings, x.win.current_engine_name, settings)} })
              : settings \in {panel_get_settings(x.win.panel)} })
    ELSE x

\* scale.set_value(value), with the value-changed handler
scale_set_value(x, key, value, outcome) ==
    Only({ IF x.win.panel[key] = v THEN x
           ELSE on_voice_settings_changed([x EXCEPT !.win.panel[key] = v], outcome)
         : v \in {Clamp(value, ScaleLower(key), ScaleUpper(key))} })

\* VoiceSettingsPanel.set_selected_voice, with the notify::selected handler
set_selected_voice(x, voice_id) ==
    IF \E i \in 1..Len(x.win.panel.voice_ids) : x.win.panel.voice_ids[i] = voice_id
    THEN [x EXCEPT !.win.panel.selected = IndexOf(x.win.panel.voice_ids, voice_id)]
    ELSE x

\* VoiceSettingsPanel.apply_settings
panel_apply_settings(x, settings, outcome) ==
    Only({
    Only({
    Only({
    Only({ IF x4.win.panel.selected # x3.win.panel.selected
           THEN on_voice_settings_changed(x4, outcome) ELSE x4
         : x4 \in {IF "voice" \in DOMAIN settings /\ Truthy(settings.voice)
                   THEN set_selected_voice(x3, settings.voice) ELSE x3} })
         : x3 \in {IF "volume" \in DOMAIN settings
                   THEN scale_set_value(x2, "volume", settings.volume, outcome) ELSE x2} })
         : x2 \in {IF "pitch" \in DOMAIN settings
                   THEN scale_set_value(x1, "pitch", settings.pitch, outcome) ELSE x1} })
         : x1 \in {IF "speed" \in DOMAIN settings
                   THEN scale_set_value(x, "speed", settings.speed, outcome) ELSE x} })

\* VoiceSettingsPanel.populate_voices: the handler of notify::selected runs
\* inside set_model, before an empty list of identifiers is replaced by [""]
populate_voices(x, voices, outcome) ==
    Only({
    Only({ IF voices = <<>> THEN [x2 EXCEPT !.win.panel.voice_ids = <<"">>] ELSE x2
         : x2 \in {IF x.win.set_model_notifies \/ x.win.panel.selected # 1
                   THEN on_voice_settings_changed(x1, outcome) ELSE x1} })
         : x1 \in {[x EXCEPT !.win.panel.voice_ids = voices, !.win.panel.selected = 1]} })

\* the end of MainWindow._switch_engine: the settings saved for the engine go
\* to the panel, and what the document then holds for the engine goes to the
\* engine (the panel's handler may have rewritten the entry in between)
restore_saved(x3, name, outcome) ==
    IF name \in DOMAIN x3.win.all_settings
    THEN Only({ [x5 EXCEPT !.win.heap[x5.win.current_engine] =
                               apply_settings(@, x5.win.all_settings[name])]
              : x5 \in {panel_apply_settings(x3, x3.win.all_settings[name], outcome)} })
    ELSE x3

\* MainWindow._switch_engine
switch_engine(x, idx, outcome) ==
    IF idx < 1 \/ idx > Len(x.win.engine_list) THEN x
    ELSE
    Only({
    Only({
    Only({
    Only({
    Only({ [x4 EXCEPT !.win.status = "Engine"]
         : x4 \in {restore_saved(x3, name, outcome)} })
         : x3 \in {populate_voices(x2, get_voices(name), outcome)} })
         : x2 \in {[x1 EXCEPT !.win.current_engine = x1.win.engines[name],
                              !.win.current_engine_name = name]} })
         : x1 \in {IF x.win.engines[name] = 0
                   THEN [x EXCEPT !.win.heap = Append(@, NewEngine(name)),
                                  !.win.engines[name] = Len(x.win.heap) + 1]
                   ELSE x} })
         : name \in {x.win.engine_list[idx]} })

\* engine_dropdown.set_selected(idx), with MainWindow._on_engine_changed
engine_dropdown_set_selected(x, idx, outcome) ==
    IF x.win.engine_dropdown = idx THEN x
    ELSE switch_engine([x EXCEPT !.win.engine_dropdown = idx], idx, outcome)

\* MainWindow._populate_engines: the detected classes, or all of them when
\* none was detected; set_model selects the first, then _switch_engine(0)
populate_engines(x, outcome) ==
    Only({
    Only({ switch_engine(x2, 1, outcome)
         : x2 \in {IF x.win.set_model_notifies \/ x.win.engine_dropdown # 1
                   THEN switch_engine(x1, 1, outcome) ELSE x1} })
         : x1 \in {[x EXCEPT !.win.engine_list = IF x.win.available_engine_classes # <<>>
                                                 THEN x.win.available_engine_classes
                                                 ELSE ENGINE_CLASSES,
                             !.win.engine_dropdown = 1,
                             !.win.ab_engine = [which \in {"A", "B"} |-> 1]]} })

\* the second half of the favorite's handler: the favorite's settings go to
\* the panel and to the current engine
fav_apply_settings(x1, fav, outcome) ==
    IF "settings" \in DOMAIN fav
    THEN Only({ IF x3.win.current_engine # 0
                THEN [x3 EXCEPT !.win.heap[x3.win.current_engine] =
                                    apply_settings(@, fav.settings)]
                ELSE x3
              : x3 \in {panel_apply_settings(x1, fav.settings, outcome)} })
    ELSE x1

\* a handler that falls back to the first engine of the list
fav_handler_first_engine(x, idx, outcome) ==
    Only({
    Only({
    Only({ [x2 EXCEPT !.win.status = "Loaded favorite"]
         : x2 \in {fav_apply_settings(x1, fav, outcome)} })
         : x1 \in {engine_dropdown_set_selected(x, 1, outcome)} })
         : fav \in {x.win.favorites[idx]} })

\* the handler MainWindow._make_fav_handler(idx) returns
fav_handler(x, idx, outcome) ==
    IF idx > Len(x.win.favorites) THEN x
    ELSE
    Only({
    Only({
    Only({
    Only({ [x2 EXCEPT !.win.status = "Loaded favorite"]
         : x2 \in {fav_apply_settings(x1, fav, outcome)} })
         : x1 \in {IF \E i \in 1..Len(x.win.engine_list) : x.win.engine_list[i] = engine_name
                   THEN engine_dropdown_set_selected(
                            x, IndexOf(x.win.engine_list, engine_name), outcome)
                   ELSE x} })
         : engine_name \in {DictGet(fav, "engine", NoneVal)} })
         : fav \in {x.win.favorites[idx]} })

\* VoiceSettingsPanel.__init__: no voice listed, the scales at 1.0
NewPanel == [voice_ids |-> <<>>, selected |-> 0, speed |-> One, pitch |-> One, volume |-> One]

\* MainWindow.__init__ up to _build_ui, with the two documents as loaded.
\* heap is every engine instance made so far, engines and current_engine are
\* positions in it; handles[i] is the process behind instance i's _process
\* (a position in procs), workers are the threads started, idle is the queue
\* of GLib.idle_add, gestures counts what the user did in a playing session.
NewWindow(detected, all_settings, favorites, notifies) ==
    [open |-> TRUE,
     set_model_notifies |-> notifies,
     engines |-> [n \in EngineNames |-> 0],
     heap |-> <<>>,
     current_engine |-> 0,
     current_engine_name |-> NoneVal,
     available_engine_classes |-> detected,
     all_settings |-> all_settings,
     favorites |-> favorites,
     fav_actions |-> Len(favorites),
     engine_list |-> <<>>,
     engine_dropdown |-> 0,
     panel |-> NewPanel,
     ab_mode |-> FALSE,
     ab_engine |-> [which \in {"A", "B"} |-> 0],
     ab_panel |-> [which \in {"A", "B"} |-> NewPanel],
     progress |-> FALSE,
     gestures |-> 0,
     handles |-> <<>>,
     procs |-> <<>>,
     workers |-> <<>>,
     idle |-> <<>>,
     status |-> "Ready"]

-----------------------------------------------------------------------------
(* Spec: a session of the main window *)

\* the documents a session may find at its start
FavoriteA == [name |-> "fav", engine |-> "espeak-ng",
              settings |-> [speed |-> 2000, voice |-> "en"]]

FavoriteB == [name |-> "fav", engine |-> "nonexistent",
              settings |-> [speed |-> 2000, voice |-> "en"]]

StartSettingsFiles ==
    {NoFile, MalformedFile,
     JsonFile(DumpSettings([n \in {"piper"} |->
                 [speed |-> 2000, pitch |-> 1000, volume |-> 1000, voice |-> ""]]))}

StartFavoritesFiles == {JsonFile(DumpFavorites(<<FavoriteB, FavoriteA>>))}

\* the favorites menu grows to at most this many entries in a session
MaxMenuEntries == 3

\* the search paths a session may run with: nothing installed, piper alone,
\* espeak-ng and festival
StartPaths == {{}, {"piper"}, {"espeak-ng", "festival"}}

\* the positions the user drags the speed scale to
SpeedStops == {1000, 2000}

\* the outcomes of the session's writes: they complete (SpecStore has the
\* failing ones)
SessionWrites == {"ok"}

World == [win |-> win, file |-> settingsFile]

Handled(op) == [op |-> op, raised |-> ""]

\* MainWindow.__init__, for every environment it can start in and load from
Init ==
    /\ installed \in StartPaths
    /\ inst = NoInstance
    /\ last = NoCall
    /\ \E sf \in StartSettingsFiles, ff \in StartFavoritesFiles,
          notifies \in BOOLEAN, outcome \in SessionWrites :
         LET x == populate_engines(
                      [win  |-> NewWindow(detect_engines, load_settings(sf),
                                          load_favorites(ff), notifies),
                       file |-> sf], outcome)
         IN  /\ win = [x.win EXCEPT !.status = "Ready"]
             /\ settingsFile = x.file
             /\ favoritesFile = ff

\* the user picks another engine in the header's drop-down
SelectEngine(idx, outcome) ==
    /\ win.engine_dropdown # idx
    /\ LET x == engine_dropdown_set_selected(World, idx, outcome) IN
         /\ win' = x.win
         /\ settingsFile' = x.file
    /\ last' = Handled("select_engine")
    /\ UNCHANGED <<installed, inst, favoritesFile>>

\* the user drags the speed scale
MoveSpeed(value, outcome) ==
    /\ win.panel.speed # value
    /\ LET x == scale_set_value(World, "speed", value, outcome) IN
         /\ win' = x.win
         /\ settingsFile' = x.file
    /\ last' = Handled("move_speed")
    /\ UNCHANGED <<installed, inst, favoritesFile>>

\* the user activates win.load-fav-<idx>; last keeps the selection the
\* handler found.  Every call of the handler that can fail on a favorite
\* written by _on_save_favorite_response runs inside a signal emission.
LoadFavorite(idx, outcome) ==
    /\ idx <= win.fav_actions
    /\ LET x == fav_handler(World, idx, outcome) IN
         /\ win' = x.win
         /\ settingsFile' = x.file
    /\ last' = [op |-> "load_favorite", raised |-> "", idx |-> idx,
                listed |-> \E i \in 1..Len(win.engine_list) :
                              win.engine_list[i] = DictGet(win.favorites[idx], "engine", NoneVal),
                current_engine |-> win.current_engine,
                current_engine_name |-> win.current_engine_name]
    /\ UNCHANGED <<installed, inst, favoritesFile>>

\* MainWindow._on_save_favorite_response with the response "save": an OSError
\* of save_favorites leaves the handler before the menu is rebuilt
SaveFavorite(name, outcome) ==
    /\ Len(win.favorites) < MaxMenuEntries
    /\ LET fav == [name |-> name, engine |-> win.current_engine_name,
                   settings |-> panel_get_settings(win.panel)]
           favorites == Append(win.favorites, fav)
       IN  /\ favoritesFile' = save_favorites(favoritesFile, favorites, outcome)
           /\ win' = IF WriteRaises(outcome) = ""
                     THEN [win EXCEPT !.favorites = favorites,
                                      !.fav_actions = Len(favorites),
                                      !.status = "Saved favorite"]
                     ELSE [win EXCEPT !.favorites = favorites]
           /\ last' = [op |-> "save_favorite", raised |-> WriteRaises(outcome)]
    /\ UNCHANGED <<installed, inst, settingsFile>>

\* Application.refresh_data
RefreshData(outcome) ==
    /\ LET x == populate_engines(
                  [World EXCEPT !.win.available_engine_classes = detect_engines], outcome)
       IN  /\ win' = [x.win EXCEPT !.status = "Engines refreshed"]
           /\ settingsFile' = x.file
    /\ last' = Handled("refresh_data")
    /\ UNCHANGED <<installed, inst, favoritesFile>>

Next ==
    \/ \E idx \in 1..Len(win.engine_list), outcome \in SessionWrites : SelectEngine(idx, outcome)
    \/ \E value \in SpeedStops, outcome \in SessionWrites : MoveSpeed(value, outcome)
    \/ \E idx \in 1..MaxMenuEntries, outcome \in SessionWrites : LoadFavorite(idx, outcome)
    \/ \E outcome \in SessionWrites : SaveFavorite("mine", outcome)
    \/ \E outcome \in SessionWrites : RefreshData(outcome)

Spec == Init /\ [][Next]_vars

-----------------------------------------------------------------------------
(* SpecPlay: play, A/B play and save-audio requests, their worker threads,   *)
(* the processes they start and the callbacks they queue.  A thread runs    *)
(* speak in steps, between which the other threads and the main loop run.   *)

\* the play, A/B play and save-audio requests of one session
MaxRequests == 2

\* what the user does in one session: requests, stops, selections, switches
\* of mode
MaxGestures == 4

\* the text buffer after strip(): blank, or something to say
PlayTexts == {"", "Hi"}

\* the answers of the save dialog: cancelled, or a file
SavePaths == {NoneVal, "/tmp/out.wav"}

\* the exit status of a process that ends by itself, and of one that ends on
\* SIGTERM (Popen.returncode is then -15)
ExitCodes == {0, 1}
Terminated == -15

\* a thread started by a request: engine is the instance it speaks on (0: the
\* window's current engine, read when the thread runs), pid the process it
\* spawned, waits the process it waits for, raised what speak raised
Worker(kind, which, engine, text, output_file) ==
    [kind |-> kind, which |-> which, engine |-> engine, text |-> text,
     output_file |-> output_file, pc |-> "start", pid |-> 0, waits |-> 0, raised |-> ""]

\* self._process of instance i: a position in procs, 0 for None
HandleOf(w, i) == IF i \in DOMAIN w.handles THEN w.handles[i] ELSE 0

\* GLib.idle_add(fn, *args), by worker k
IdleAdd(w, k, fn, msg) == [w EXCEPT !.idle = Append(@, [fn |-> fn, msg |-> msg, worker |-> k])]

\* os.path.basename
Basename(path) == CASE path = "/tmp/out.wav" -> "out.wav"

\* the callback a worker queues when speak has returned
Succeeded(w, k) ==
    CASE w.workers[k].kind = "play" -> IdleAdd(w, k, "_on_playback_done", "")
      [] w.workers[k].kind = "ab"   ->
            IdleAdd(w, k, "_update_status", "Finished " \o w.workers[k].which)
      [] w.workers[k].kind = "save" ->
            IdleAdd(w, k, "_update_status",
                    "Audio saved to " \o Basename(w.workers[k].output_file))

\* the callback a worker queues when speak has raised
Failed(w, k, raised) ==
    CASE w.workers[k].kind = "play" -> IdleAdd(w, k, "_update_status", "Error: " \o raised)
      [] w.workers[k].kind = "ab"   ->
            IdleAdd(w, k, "_update_status",
                    "Error (" \o w.workers[k].which \o "): " \o raised)
      [] w.workers[k].kind = "save" ->
            IdleAdd(w, k, "_update_status", "Save error: " \o raised)

\* the worker's thread ends, speak having returned or raised
Ended(w, k, raised) ==
    Only({ IF raised = "" THEN Succeeded(w1, k) ELSE Failed(w1, k, raised)
         : w1 \in {[w EXCEPT !.workers[k].pc = "done", !.workers[k].raised = raised]} })

\* what speak raises before a process exists: Festival's 1.0/rate, then Popen
LaunchRaises(e) ==
    IF e.name = "festival" /\ e.speed = 0 THEN "ZeroDivisionError"
    ELSE IF ~is_available(e.name) THEN "FileNotFoundError"
    ELSE ""

\* speak returns without waiting: espeak-ng playing directly
ReturnsAtOnce(e, output_file) == e.name = "espeak-ng" /\ ~Truthy(output_file)

\* MainWindow._on_play
on_play(w, text) ==
    IF text = "" THEN [w EXCEPT !.status = "No text to speak"]
    ELSE IF w.current_engine = 0 THEN [w EXCEPT !.status = "No engine selected"]
    ELSE [w EXCEPT !.status = "Speaking...",
                   !.progress = TRUE,
                   !.workers = Append(@, Worker("play", NoneVal, 0, text, NoneVal))]

\* MainWindow._on_playback_done
on_playback_done(w) == [w EXCEPT !.progress = FALSE, !.status = "Playback finished"]

\* a stop that terminates every running process the current engine spawned
on_stop_every_process(w) ==
    Only({ [w1 EXCEPT !.progress = FALSE, !.status = "Stopped"]
         : w1 \in {IF w.current_engine = 0 THEN w
                   ELSE [w EXCEPT !.procs = [p \in DOMAIN w.procs |->
                                     IF w.procs[p].engine = w.current_engine
                                        /\ w.procs[p].state = "running"
                                     THEN [w.procs[p] EXCEPT !.signalled = TRUE]
                                     ELSE w.procs[p]],
                                  !.heap[w.current_engine] = stop(@),
                                  !.handles = DictPut(@, w.current_engine, 0)]} })

\* MainWindow._on_stop
on_stop(w) ==
    Only({ [w1 EXCEPT !.progress = FALSE, !.status = "Stopped"]
         : w1 \in {IF w.current_engine = 0 THEN w
                   ELSE IF stop_terminates(w.heap[w.current_engine])
                   THEN [w EXCEPT !.procs[HandleOf(w, w.current_engine)].signalled = TRUE,
                                  !.heap[w.current_engine] = stop(@),
                                  !.handles = DictPut(@, w.current_engine, 0)]
                   ELSE w} })

\* MainWindow._get_ab_engine: a new instance with the panel's settings, at
\* the end of the heap
get_ab_engine(w, which) ==
    IF w.ab_engine[which] < 1 \/ w.ab_engine[which] > Len(w.engine_list) THEN w
    ELSE [w EXCEPT !.heap = Append(@, apply_settings(
                                NewEngine(w.engine_list[w.ab_engine[which]]),
                                panel_get_settings(w.ab_panel[which])))]

\* MainWindow._play_ab
play_ab(w, which, text) ==
    IF text = "" THEN [w EXCEPT !.status = "No text to speak"]
    ELSE Only({ IF Len(w1.heap) = Len(w.heap)
                THEN [w1 EXCEPT !.status = "No engine for " \o which]
                ELSE [w1 EXCEPT !.status = "Playing " \o which \o "...",
                                !.workers = Append(@, Worker("ab", which, Len(w1.heap),
                                                             text, NoneVal))]
              : w1 \in {get_ab_engine(w, which)} })

\* MainWindow._on_save_audio and, once the dialog is answered,
\* _on_save_audio_response: a cancelled dialog raises GLib.Error
on_save_audio(w, text, path) ==
    IF text = "" THEN [w EXCEPT !.status = "No text to save"]
    ELSE IF w.current_engine = 0 THEN [w EXCEPT !.status = "No engine selected"]
    ELSE IF path = NoneVal THEN w
    ELSE [w EXCEPT !.status = "Saving audio...",
                   !.workers = Append(@, Worker("save", NoneVal, 0, text, path))]

\* MainWindow._on_ab_toggled, one turn of its loop: an instance is made to
\* list the voices of the engine the drop-down shows
ab_populate(w, which) ==
    IF w.ab_engine[which] < 1 \/ w.ab_engine[which] > Len(w.engine_list) THEN w
    ELSE Only({ [w EXCEPT !.heap = Append(@, NewEngine(name)),
                          !.ab_panel[which].voice_ids =
                              IF get_voices(name) = <<>> THEN <<"">> ELSE get_voices(name),
                          !.ab_panel[which].selected = 1]
              : name \in {w.engine_list[w.ab_engine[which]]} })

\* MainWindow._on_ab_toggled
on_ab_toggled(w, active) ==
    IF active
    THEN [ab_populate(ab_populate([w EXCEPT !.ab_mode = TRUE], "A"), "B")
             EXCEPT !.status = "A/B Comparison mode"]
    ELSE [w EXCEPT !.ab_mode = FALSE, !.status = "Normal mode"]

\* the thread's first step, do_speak up to Popen and self._process = ...:
\* the engine is the one the request made (A/B) or the window's current one (None
\* has no speak)
worker_start(w, k) ==
    Only({
    Only({ IF e = 0 THEN Ended(w, k, "AttributeError")
           ELSE IF LaunchRaises(w.heap[e]) # "" THEN Ended(w1, k, LaunchRaises(w.heap[e]))
           ELSE Only({ IF ReturnsAtOnce(w.heap[e], w.workers[k].output_file)
                       THEN Ended(w2, k, "")
                       ELSE [w2 EXCEPT !.workers[k].pc = "spawned"]
                     : w2 \in {[w1 EXCEPT
                           !.procs = Append(@, [state |-> "running", code |-> 0,
                                                signalled |-> FALSE, engine |-> e]),
                           !.handles = DictPut(@, e, Len(w.procs) + 1),
                           !.heap[e].process = "running",
                           !.workers[k].pid = Len(w.procs) + 1]} })
         : w1 \in {[w EXCEPT !.workers[k].engine = e]} })
         : e \in {IF w.workers[k].engine = 0 THEN w.current_engine
                  ELSE w.workers[k].engine} })

\* the thread's second step, self._process.communicate(...) or .wait(): the
\* attribute is read again, and is None after a stop
worker_read_handle(w, k) ==
    IF HandleOf(w, w.workers[k].engine) = 0 THEN Ended(w, k, "AttributeError")
    ELSE [w EXCEPT !.workers[k].waits = HandleOf(w, w.workers[k].engine),
                   !.workers[k].pc = "waiting"]

\* the thread's last step: the process it waits for has exited, speak
\* returns whatever the exit status
worker_return(w, k) == Ended(w, k, "")

\* a process ends: by itself with a status, or on the SIGTERM stop sent it
process_exits(w, pid, code) ==
    [w EXCEPT !.procs[pid].state = "exited",
              !.procs[pid].code = IF w.procs[pid].signalled THEN Terminated ELSE code,
              !.heap = [i \in DOMAIN w.heap |->
                           IF HandleOf(w, i) = pid
                           THEN [w.heap[i] EXCEPT !.process = "exited"] ELSE w.heap[i]]]

\* the main loop runs the first queued callback
idle_run(w) ==
    Only({ IF cb.fn = "_on_playback_done" THEN on_playback_done(w1)
           ELSE [w1 EXCEPT !.status = cb.msg]
         : w1 \in {[w EXCEPT !.idle = Tail(@)]}, cb \in {Head(w.idle)} })

Play(text) ==
    /\ Len(win.workers) < MaxRequests
    /\ win.gestures < MaxGestures
    /\ win' = [(on_play(win, text)) EXCEPT !.gestures = @ + 1]
    /\ UNCHANGED <<installed, inst, last, settingsFile, favoritesFile>>

\* the buttons and drop-downs of sides A and B are on the page of the view
\* stack that A/B mode shows
PlayAB(which, text) ==
    /\ win.ab_mode
    /\ Len(win.workers) < MaxRequests
    /\ win.gestures < MaxGestures
    /\ win' = [(play_ab(win, which, text)) EXCEPT !.gestures = @ + 1]
    /\ UNCHANGED <<installed, inst, last, settingsFile, favoritesFile>>

SaveAudio(text, path) ==
    /\ Len(win.workers) < MaxRequests
    /\ win.gestures < MaxGestures
    /\ win' = [(on_save_audio(win, text, path)) EXCEPT !.gestures = @ + 1]
    /\ UNCHANGED <<installed, inst, last, settingsFile, favoritesFile>>

StopPlayback ==
    /\ win.gestures < MaxGestures
    /\ win' = [(on_stop(win)) EXCEPT !.gestures = @ + 1]
    /\ UNCHANGED <<installed, inst, last, settingsFile, favoritesFile>>

ToggleAB ==
    /\ win.gestures < MaxGestures
    /\ win' = [(on_ab_toggled(win, ~win.ab_mode)) EXCEPT !.gestures = @ + 1]
    /\ UNCHANGED <<installed, inst, last, settingsFile, favoritesFile>>

\* the user picks another engine in the header's drop-down
PickEngine(idx) ==
    /\ win.gestures < MaxGestures
    /\ win.engine_dropdown # idx
    /\ win' = [engine_dropdown_set_selected(World, idx, "ok").win EXCEPT !.gestures = @ + 1]
    /\ settingsFile' = engine_dropdown_set_selected(World, idx, "ok").file
    /\ UNCHANGED <<installed, inst, last, favoritesFile>>

\* the user picks an engine in the drop-down of side A or B
SelectABEngine(which, idx) ==
    /\ win.ab_mode
    /\ win.ab_engine[which] # idx
    /\ win.gestures < MaxGestures
    /\ win' = [win EXCEPT !.ab_engine[which] = idx, !.gestures = @ + 1]
    /\ UNCHANGED <<installed, inst, last, settingsFile, favoritesFile>>

WorkerStarts(k) ==
    /\ win.workers[k].pc = "start"
    /\ win' = worker_start(win, k)
    /\ UNCHANGED <<installed, inst, last, settingsFile, favoritesFile>>

WorkerReadsHandle(k) ==
    /\ win.workers[k].pc = "spawned"
    /\ win' = worker_read_handle(win, k)
    /\ UNCHANGED <<installed, inst, last, settingsFile, favoritesFile>>

WorkerReturns(k) ==
    /\ win.workers[k].pc = "waiting"
    /\ win.procs[win.workers[k].waits].state = "exited"
    /\ win' = worker_return(win, k)
    /\ UNCHANGED <<installed, inst, last, settingsFile, favoritesFile>>

ProcessEnds(pid, code) ==
    /\ win.procs[pid].state = "running"
    /\ win' = process_exits(win, pid, code)
    /\ UNCHANGED <<installed, inst, last, settingsFile, favoritesFile>>

IdleRuns ==
    /\ win.idle # <<>>
    /\ win' = idle_run(win)
    /\ UNCHANGED <<installed, inst, last, settingsFile, favoritesFile>>

\* the search paths a playing session may run with: nothing installed (no
\* program launches), or espeak-ng (speak returns at once) and piper (speak
\* waits)
PlayPaths == {{}, {"espeak-ng", "piper"}}

\* MainWindow.__init__ with no document stored
InitPlay ==
    /\ installed \in PlayPaths
    /\ inst = NoInstance
    /\ last = NoCall
    /\ settingsFile = NoFile
    /\ favoritesFile = NoFile
    /\ \E notifies \in BOOLEAN :
         win = [populate_engines(
                    [win  |-> NewWindow(detect_engines, load_settings(NoFile),
                                        load_favorites(NoFile), notifies),
                     file |-> NoFile], "ok").win EXCEPT !.status = "Ready"]

NextPlay ==
    \/ \E idx \in 1..Len(win.engine_list) : PickEngine(idx)
    \/ \E text \in PlayTexts : Play(text)
    \/ \E which \in {"A", "B"}, text \in PlayTexts : PlayAB(which, text)
    \/ \E text \in PlayTexts, path \in SavePaths : SaveAudio(text, path)
    \/ StopPlayback
    \/ ToggleAB
    \/ \E which \in {"A", "B"}, idx \in 1..Len(win.engine_list) : SelectABEngine(which, idx)
    \/ \E k \in 1..Len(win.workers) : WorkerStarts(k)
    \/ \E k \in 1..Len(win.workers) : WorkerReadsHandle(k)
    \/ \E k \in 1..Len(win.workers) : WorkerReturns(k)
    \/ \E pid \in 1..Len(win.procs), code \in ExitCodes : ProcessEnds(pid, code)
    \/ IdleRuns

SpecPlay == InitPlay /\ [][NextPlay]_vars

-----------------------------------------------------------------------------
(* SpecOverlap: the play requests of SpecPlay alone, overlapping on the      *)
(* window's instances, with stops and engine selections between their steps *)

NextOverlap ==
    \/ \E idx \in 1..Len(win.engine_list) : PickEngine(idx)
    \/ \E text \in PlayTexts : Play(text)
    \/ StopPlayback
    \/ \E k \in 1..Len(win.workers) : WorkerStarts(k)
    \/ \E k \in 1..Len(win.workers) : WorkerReadsHandle(k)
    \/ \E k \in 1..Len(win.workers) : WorkerReturns(k)
    \/ \E pid \in 1..Len(win.procs), code \in ExitCodes : ProcessEnds(pid, code)
    \/ IdleRuns

SpecOverlap == InitPlay /\ [][NextOverlap]_vars

-----------------------------------------------------------------------------
(* Properties of the engine layer *)

HasArg(cmd, flag) == \E i \in 1..Len(cmd) : cmd[i] = flag

\* the argument that follows the first occurrence of flag
ArgAfter(cmd, flag) ==
    cmd[1 + CHOOSE i \in 1..(Len(cmd) - 1) :
                /\ cmd[i] = flag
                /\ \A j \in 1..(i - 1) : cmd[j] # flag]

SpokeOn(name) == last.op = "speak" /\ last.engine = name

DefaultSettings == [speed |-> 1000, pitch |-> 1000, volume |-> 1000, voice |-> NoneVal]

C1_Case ==
    /\ SpokeOn("espeak-ng")
    /\ last.settings = DefaultSettings
    /\ last.text = "Hello world"
    /\ last.output_file = "/tmp/out.wav"
    /\ ~last.ssml

\* C1: espeak-ng with default settings, speak("Hello world", "/tmp/out.wav",
\* ssml off) hands Popen exactly espeak-ng -s 175 -p 50 -a 100 -w /tmp/out.wav
\* "Hello world", and, the program being there to spawn, returns the path.
C1_EspeakDefaultInvocation ==
    C1_Case =>
        /\ last.cmd = <<"espeak-ng", "-s", "175", "-p", "50", "-a", "100",
                        "-w", "/tmp/out.wav", "Hello world">>
        /\ last.spawned => (last.ret = "/tmp/out.wav" /\ last.raised = "")

C1_Witness == C1_Case /\ last.spawned /\ last.ret = "/tmp/out.wav"

\* C2 as the specification states it: the value after -s is 175 x speed
\* rounded to the nearest integer, 18 for a speed of 0.1 and 700 for 4.0.
C2_WpmIsRounded ==
    (SpokeOn("espeak-ng") /\ last.settings.speed > 0) =>
        /\ \E w \in 0..(4 * BaseWpm) :
             /\ 2 * 1000 * w - 1000 <= 2 * BaseWpm * last.settings.speed
             /\ 2 * BaseWpm * last.settings.speed <= 2 * 1000 * w + 1000
             /\ ArgAfter(last.cmd, "-s") = IntToStr(w)
        /\ last.settings.speed = 100 => ArgAfter(last.cmd, "-s") = "18"
        /\ last.settings.speed = 4000 => ArgAfter(last.cmd, "-s") = "700"

\* C2, amended: for every speed > 0 the value after -s is 175 x speed with
\* its fraction dropped: the integer w with w <= 175 x speed < w + 1; 17 for
\* a speed of 0.1 and 700 for 4.0.
C2_WpmIsTruncated ==
    (SpokeOn("espeak-ng") /\ last.settings.speed > 0) =>
        /\ \E w \in 0..(4 * BaseWpm) :
             /\ 1000 * w <= BaseWpm * last.settings.speed
             /\ BaseWpm * last.settings.speed < 1000 * (w + 1)
             /\ ArgAfter(last.cmd, "-s") = IntToStr(w)
        /\ last.settings.speed = 100 => ArgAfter(last.cmd, "-s") = "17"
        /\ last.settings.speed = 4000 => ArgAfter(last.cmd, "-s") = "700"

C2_Witness ==
    /\ SpokeOn("espeak-ng")
    /\ last.settings.speed = 100
    /\ ArgAfter(last.cmd, "-s") = "17"

\* w is x/1000 rounded to the nearest integer (either way on a tie) and
\* clamped into 0..hi
ClampedRound(w, x, hi) ==
    /\ w \in 0..hi
    /\ \/ w = 0 /\ x <= 500
       \/ w = hi /\ 2 * x >= 2 * 1000 * hi - 1000
       \/ 2 * 1000 * w - 1000 <= 2 * x /\ 2 * x <= 2 * 1000 * w + 1000

\* w is x/1000 with its fraction dropped (toward zero) and clamped into 0..hi
ClampedTrunc(w, x, hi) ==
    /\ w \in 0..hi
    /\ \/ w = 0 /\ x < 1000
       \/ w = hi /\ x >= 1000 * hi
       \/ 1000 * w <= x /\ x < 1000 * (w + 1)

\* C3 as the specification states it: the value after -p is
\* clamp(round(50 x pitch), 0, 99), the one after -a is
\* clamp(round(100 x volume), 0, 200).
C3_PitchVolumeRounded ==
    SpokeOn("espeak-ng") =>
        /\ \E w \in 0..99 :
             /\ ClampedRound(w, 50 * last.settings.pitch, 99)
             /\ ArgAfter(last.cmd, "-p") = IntToStr(w)
        /\ \E w \in 0..200 :
             /\ ClampedRound(w, 100 * last.settings.volume, 200)
             /\ ArgAfter(last.cmd, "-a") = IntToStr(w)

\* C3, amended: the value after -p is 50 x pitch with its fraction dropped,
\* clamped into 0..99, the one after -a is 100 x volume with its fraction
\* dropped, clamped into 0..200; a pitch of 10.0 gives 99, of -5 gives 0, a
\* volume of 5.0 gives 200.
C3_PitchVolumeTruncated ==
    SpokeOn("espeak-ng") =>
        /\ \E w \in 0..99 :
             /\ ClampedTrunc(w, 50 * last.settings.pitch, 99)
             /\ ArgAfter(last.cmd, "-p") = IntToStr(w)
        /\ \E w \in 0..200 :
             /\ ClampedTrunc(w, 100 * last.settings.volume, 200)
             /\ ArgAfter(last.cmd, "-a") = IntToStr(w)
        /\ last.settings.pitch = 10000 => ArgAfter(last.cmd, "-p") = "99"
        /\ last.settings.pitch = -5000 => ArgAfter(last.cmd, "-p") = "0"
        /\ last.settings.volume = 5000 => ArgAfter(last.cmd, "-a") = "200"

C3_Witness ==
    /\ SpokeOn("espeak-ng")
    /\ last.settings.pitch = 10000
    /\ last.settings.volume = 5000
    /\ ArgAfter(last.cmd, "-p") = "99"
    /\ ArgAfter(last.cmd, "-a") = "200"

\* 1 / max(0.1, speed) as Python prints it, for the speeds of the grid
LengthScaleOf(speed) ==
    CASE speed <= 100 -> "10.0"
      [] speed = 250  -> "4.0"
      [] speed = 1000 -> "1.0"
      [] speed = 2000 -> "0.5"
      [] speed = 4000 -> "0.25"

\* C4: Piper's argument list is piper --output_file <path>, --model <voice>
\* if a voice is set, and --length_scale exactly when the speed is not 1.0,
\* with the value 1 / max(0.1, speed): 0.5 for 2.0, 10 for every speed up to
\* 0.1.  Nothing else is in the list, so pitch and volume do not change it.
C4_PiperLengthScale ==
    SpokeOn("piper") =>
        /\ HasArg(last.cmd, "--length_scale") <=> last.settings.speed # 1000
        /\ last.cmd =
             <<"piper", "--output_file", last.path>>
                \o (IF last.settings.voice \in {NoneVal, ""} THEN <<>>
                    ELSE <<"--model", last.settings.voice>>)
                \o (IF last.settings.speed = 1000 THEN <<>>
                    ELSE <<"--length_scale", LengthScaleOf(last.settings.speed)>>)

C4_Witness ==
    /\ SpokeOn("piper")
    /\ last.spawned
    /\ last.settings.speed = 2000
    /\ last.settings.pitch # 1000
    /\ last.settings.volume # 1000
    /\ ArgAfter(last.cmd, "--length_scale") = "0.5"

\* C5: apply_settings(r) followed by get_settings() returns r's value for
\* every field r has and the default for every field it has not, whatever
\* the instance held before.
C5_ApplyThenGet ==
    (last.op = "get_settings" /\ last.previous.op = "apply_settings") =>
        /\ DOMAIN last.ret = SettingKeys
        /\ \A k \in SettingKeys :
             last.ret[k] = IF k \in DOMAIN last.previous.settings
                           THEN last.previous.settings[k]
                           ELSE (IF k = "voice" THEN NoneVal ELSE 1000)

C5_Witness ==
    /\ last.op = "get_settings"
    /\ last.previous.op = "apply_settings"
    /\ DOMAIN last.previous.settings = {"pitch"}
    /\ last.previous.before.speed = 2000
    /\ last.previous.before.voice = "en"
    /\ last.ret.speed = 1000
    /\ last.ret.voice = NoneVal

RegistryIndex(name) == CHOOSE i \in 1..3 : <<"espeak-ng", "piper", "festival">>[i] = name

\* C9: detect_engines returns exactly the registry's engines whose program is
\* on the search path, each once, in the order espeak-ng, piper, festival;
\* with none of the programs installed it returns the empty sequence.
C9_DetectEngines ==
    last.op = "detect_engines" =>
        /\ \A i \in 1..Len(last.ret) : last.ret[i] \in last.path
        /\ \A n \in {"espeak-ng", "piper", "festival"} :
             n \in last.path => \E i \in 1..Len(last.ret) : last.ret[i] = n
        /\ \A i, j \in 1..Len(last.ret) :
             i < j => RegistryIndex(last.ret[i]) < RegistryIndex(last.ret[j])
        /\ last.path = {} => last.ret = <<>>

C9_Witness ==
    /\ last.op = "detect_engines"
    /\ last.path = {"espeak-ng", "festival"}
    /\ last.ret = <<"espeak-ng", "festival">>

\* C10: get_engine(identifier) returns an instance of that identifier with
\* default settings for each of espeak-ng, piper and festival, installed or
\* not, and None for any other identifier.
C10_GetEngine ==
    last.op = "get_engine" =>
        IF last.name \in {"espeak-ng", "piper", "festival"}
        THEN /\ last.ret.name = last.name
             /\ get_settings(last.ret) = DefaultSettings
        ELSE last.ret = NoInstance

C10_Witness ==
    /\ last.op = "get_engine"
    /\ last.name = "piper"
    /\ last.installed = {}
    /\ last.ret.name = "piper"

\* C11: stop() on an instance with no running subprocess (no handle, or the
\* handle of a process that has exited) raises nothing, terminates nothing
\* and leaves the instance as it was; a stop() right after a stop() changes
\* nothing either.
C11_StopWithoutProcess ==
    /\ (last.op = "stop" /\ last.before.process # "running") =>
          /\ last.raised = ""
          /\ ~last.terminated
          /\ get_settings(inst) = get_settings(last.before)
          /\ inst = last.before
    /\ (last.op = "stop" /\ last.again) =>
          /\ last.raised = ""
          /\ ~last.terminated
          /\ inst = last.before

C11_Witness ==
    /\ last.op = "stop"
    /\ last.again
    /\ last.before.process = "exited"
    /\ inst.speed = 2000

\* C12: after a call of stop() has returned the instance tracks no process
\* handle; a termination request went to the tracked process if there was one.
C12_StopClearsHandle ==
    last.op = "stop" =>
        /\ inst.process = NoneVal
        /\ last.terminated <=> last.before.process # NoneVal

\* C13: speak with an output path either fails or returns that path with the
\* file there; it returns nothing else, and not the path without the file.
C13_OutputFileOrFailure ==
    (last.op = "speak" /\ Truthy(last.output_file)) =>
        \/ last.raised # ""
        \/ last.ret = last.output_file /\ last.produced

\* the call spawned a program that plays on the audio device: espeak-ng
\* without -w, festival with a SayText and no utt.save.wave
DirectPlayback ==
    /\ last.spawned
    /\ CASE last.engine = "espeak-ng" -> ~HasArg(last.cmd, "-w")
         [] last.engine = "festival"  ->
                /\ last.stdin # <<>>
                /\ last.stdin[Len(last.stdin)] = "(SayText \"" \o last.text \o "\")"
         [] OTHER -> FALSE

SpokeWithoutPath == last.op = "speak" /\ ~Truthy(last.output_file) /\ last.raised = ""

ArgWithin(cmd, flag, lo, hi) == \E w \in lo..hi : ArgAfter(cmd, flag) = IntToStr(w)

\* C16: whatever speed, pitch and volume the instance holds, speak raises
\* nothing while it builds the invocation (the one failure left is that of
\* launching the program), and the numbers it passes are inside the engine's
\* range: for espeak-ng a words-per-minute value that is not negative, a
\* pitch in 0..99 and a volume in 0..200.
C16_ValuesClampedNeverRejected ==
    last.op = "speak" =>
        /\ last.raised \in {"", "FileNotFoundError"}
        /\ last.engine = "espeak-ng" =>
              /\ ArgWithin(last.cmd, "-s", 0, 4 * BaseWpm)
              /\ ArgWithin(last.cmd, "-p", 0, MaxPitch)
              /\ ArgWithin(last.cmd, "-a", 0, MaxVolume)

\* 1 / speed as Python prints it, for the speeds of the grid other than 0
StretchOf(speed) ==
    CASE speed = -1000 -> "-1.0"
      [] speed = 50    -> "20.0"
      [] speed = 100   -> "10.0"
      [] speed = 250   -> "4.0"
      [] speed = 1000  -> "1.0"
      [] speed = 2000  -> "0.5"
      [] speed = 4000  -> "0.25"

\* C17: the program festival is sent has the line (<voice>) exactly when a
\* voice is set, then the Duration_Stretch line with 1 / speed exactly when
\* the speed is not 1.0, then the synthesis: SynthText and utt.save.wave to
\* the path when a path is given, SayText otherwise.  Nothing else is in it,
\* so pitch and volume do not change it.
C17_FestivalProgram ==
    (SpokeOn("festival") /\ last.spawned) =>
        last.stdin =
            (IF last.settings.voice \in {NoneVal, ""} THEN <<>>
             ELSE <<"(" \o last.settings.voice \o ")">>)
            \o (IF last.settings.speed = 1000 THEN <<>>
                ELSE <<"(Parameter.set 'Duration_Stretch "
                          \o StretchOf(last.settings.speed) \o ")">>)
            \o (IF last.output_file = NoneVal
                THEN <<"(SayText \"" \o last.text \o "\")">>
                ELSE <<"(set! utt1 (SynthText \"" \o last.text \o "\"))",
                       "(utt.save.wave utt1 \"" \o last.output_file \o "\")">>)

C17_Witness ==
    /\ SpokeOn("festival")
    /\ last.spawned
    /\ last.settings.voice = "en"
    /\ last.settings.speed = 250
    /\ last.settings.pitch = 10000
    /\ last.output_file = "/tmp/out.wav"
    /\ Len(last.stdin) = 4

\* the voice query of the last get_voices call failed: the program was not
\* launched, timed out, exited with an error, or printed something that is
\* not a voice list (bytes that do not decode included)
QueryFailed ==
    /\ last.op = "get_voices"
    /\ last.engine \in {"espeak-ng", "festival"}
    /\ \/ last.query.raised # ""
       \/ last.query.returncode # 0
       \/ last.engine = "espeak-ng" /\ last.query.stdout \notin EspeakTables
       \/ last.engine = "festival" /\ last.query.stdout \notin FestivalLists

\* C15: get_voices raises nothing, on any engine, and returns the empty
\* sequence when the voice query failed.
C15_VoiceQueryNeverPropagates ==
    last.op = "get_voices" =>
        /\ last.raised = ""
        /\ QueryFailed => last.ret = <<>>

\* C20: once the subprocess of a speak request has exited and speak has
\* returned, the instance tracks no process handle.
C20_HandleDiscardedAfterExit ==
    (inst # NoInstance /\ inst.process # "running") => inst.process = NoneVal

-----------------------------------------------------------------------------
(* Properties of playback *)

\* the callback reports success: "Playback finished", "Finished A/B" or
\* "Audio saved to ..."
ReportsSuccess(cb) ==
    \/ cb.fn = "_on_playback_done"
    \/ cb.msg \in {"Finished A", "Finished B", "Audio saved to out.wav"}

\* the program of worker k's request was not launched, or has exited by
\* itself with a status other than 0
ProgramFailed(k) ==
    /\ win.workers[k].pc = "done"
    /\ \/ win.workers[k].pid = 0
       \/ /\ win.procs[win.workers[k].pid].state = "exited"
          /\ win.procs[win.workers[k].pid].code \notin {0, Terminated}

\* C18: no callback queued for the main loop reports success for a request
\* whose program failed to launch or exited abnormally, and what a worker
\* queues on a failure is a status message (nothing is raised out of the
\* thread).
C18_FailureGivesErrorStatus ==
    win.open =>
        \A i \in 1..Len(win.idle) :
            /\ ReportsSuccess(win.idle[i]) => ~ProgramFailed(win.idle[i].worker)
            /\ ~ReportsSuccess(win.idle[i]) =>
                  /\ win.idle[i].fn = "_update_status"
                  /\ win.workers[win.idle[i].worker].raised # ""

\* C19: of every engine identifier, at most one instance has been made.
C19_OneInstancePerIdentifier ==
    win.open =>
        \A n \in EngineNames :
            Cardinality({i \in 1..Len(win.heap) : win.heap[i].name = n}) <= 1

\* the processes instance i has spawned
SpawnedBy(w, i) == {p \in 1..Len(w.procs) : w.procs[p].engine = i}

C23_EachRequestWaitsForItsOwnProcess ==
    win.open =>
        /\ \A k \in 1..Len(win.workers) :
              win.workers[k].waits # 0 => win.workers[k].waits = win.workers[k].pid
        /\ \A j, k \in 1..Len(win.workers) :
              (j # k /\ win.workers[j].waits # 0) => win.workers[j].waits # win.workers[k].waits

\* the callbacks of play request k that the main loop has not run yet
Pending(k) == {i \in 1..Len(win.idle) : win.idle[i].worker = k}

\* C24: when _on_playback_done has run for a play request ("Playback
\* finished" shown, the progress indicator hidden), the process spawned for
\* that request has exited.
C24_FinishedOnlyAfterExit ==
    win.open =>
        \A k \in 1..Len(win.workers) :
            (/\ win.workers[k].kind = "play"
             /\ win.workers[k].pc = "done"
             /\ win.workers[k].raised = ""
             /\ Pending(k) = {}) =>
                /\ win.workers[k].pid # 0
                /\ win.procs[win.workers[k].pid].state = "exited"

\* C25: once every worker has ended and the main loop has run every callback
\* queued, so that nothing is left that would hide it, the progress indicator
\* is hidden.
C25_ProgressHiddenWhenIdle ==
    win.open =>
        ((\A k \in 1..Len(win.workers) : win.workers[k].pc = "done" /\ Pending(k) = {})
            => ~win.progress)

-----------------------------------------------------------------------------
(* Properties of the settings store *)

SavedThenLoaded(save, load) ==
    /\ last.op = load
    /\ last.previous.op = save

LoadedThenSavedBack(load, save) ==
    /\ last.op = save
    /\ last.raised = ""
    /\ last.previous.op = load
    /\ last.previous.file.kind = "json"

\* C6: a load that follows a completed save_settings(d) returns d, and saving
\* what was loaded from a stored document leaves the file as it was; the
\* same for save_favorites and load_favorites.
C6_StoreRoundTrip ==
    /\ SavedThenLoaded("save_settings", "load_settings") =>
         (last.raised = "" /\ last.call.ret = last.previous.doc)
    /\ SavedThenLoaded("save_favorites", "load_favorites") =>
         (last.raised = "" /\ last.call.ret = last.previous.doc)
    /\ LoadedThenSavedBack("load_settings", "save_settings") =>
         last.call.stored = last.previous.file
    /\ LoadedThenSavedBack("load_favorites", "save_favorites") =>
         last.call.stored = last.previous.file

C6_Witness ==
    /\ SavedThenLoaded("save_settings", "load_settings")
    /\ DOMAIN last.previous.doc = {"espeak-ng", "piper"}
    /\ last.previous.doc["espeak-ng"].voice = NoneVal
    /\ last.previous.doc["piper"].voice = "en"
    /\ last.call.ret = last.previous.doc
    /\ favoritesFile.kind = "json"

\* C7: when the file is missing or its content is malformed (text that is
\* no JSON document, or bytes that are no text in the locale's encoding),
\* load_settings returns the empty mapping and load_favorites the empty list,
\* and neither raises.
C7_ReadFailureGivesDefaults ==
    (/\ last.op \in {"load_settings", "load_favorites"}
     /\ last.call.file.kind \in {"missing", "malformed", "undecodable"}) =>
        /\ last.raised = ""
        /\ last.call.ret = <<>>

-----------------------------------------------------------------------------
(* Properties of the main window *)

\* C8: loading a favorite whose engine identifier matches no entry of the
\* current engine list raises nothing and leaves the selected engine as it
\* was: the same instance and the same identifier.
C8_FavoriteOfUnlistedEngine ==
    (last.op = "load_favorite" /\ ~last.listed) =>
        /\ last.raised = ""
        /\ win.current_engine = last.current_engine
        /\ win.current_engine_name = last.current_engine_name

\* the favorite of the engine "nonexistent" loaded while the second engine of
\* the list is selected, its settings applied to that engine
C8_Witness ==
    /\ last.op = "load_favorite"
    /\ ~last.listed
    /\ win.favorites[last.idx].engine = "nonexistent"
    /\ win.engine_dropdown = 2
    /\ win.current_engine = win.engines[win.engine_list[2]]
    /\ win.heap[win.current_engine].speed = 2000
    /\ win.status = "Loaded favorite"

\* C22: a step that changes the settings document in memory, and every
\* completed voice-settings change, leaves a stored settings document that
\* reads back equal to the one in memory.  A step that changes the favorites
\* list in memory appends one entry at its end, leaves the earlier entries as
\* they were, and leaves a stored list that reads back equal to it.
C22_WrittenBackOnEveryMutation ==
    [][ /\ (win'.all_settings # win.all_settings \/ last'.op = "move_speed") =>
              load_settings(settingsFile') = win'.all_settings
        /\ (win'.favorites # win.favorites) =>
              /\ Len(win'.favorites) = Len(win.favorites) + 1
              /\ SubSeq(win'.favorites, 1, Len(win.favorites)) = win.favorites
              /\ load_favorites(favoritesFile') = win'.favorites ]_vars

C22_Witness ==
    /\ win.open
    /\ last.op = "save_favorite"
    /\ Len(win.favorites) = 3
    /\ win.favorites[3].name = "mine"
    /\ win.favorites[3].settings.speed = 2000
    /\ load_favorites(favoritesFile) = win.favorites
    /\ win.current_engine_name \in DOMAIN win.all_settings
    /\ win.all_settings[win.current_engine_name].speed = 2000
    /\ load_settings(settingsFile) = win.all_settings

====
